---- MODULE Spec2Model ----
(***************************************************************************)
(* Model of streamlit_app.py: the "Gerar arquivos" handler, the column and *)
(* font planner and the paginator of render_pdf.                           *)
(*                                                                         *)
(* Lengths.  reportlab's mm is the double 72.0 / 2.54 * 0.1 and A4 is      *)
(* (210*mm, 297*mm).  A length is a record [t, d, x]:                      *)
(*   t  the nominal length in 1/60 mm (so halves, thirds and tenths of a   *)
(*      millimetre are integers);                                          *)
(*   d  when x is TRUE, the exact IEEE-754 deviation of the double from    *)
(*      (t/60) * mm, in units of 2^-51 pt (every double >= 2 is a multiple *)
(*      of 2^-51, and so is every sum, difference and integer multiple);   *)
(*   x  TRUE when d is tracked: the value was built from integer multiples *)
(*      of mm by + and - only.  After a product with a non-integer double  *)
(*      (1.1, 1.8) the rounding is not tracked and d is 0.                 *)
(* Font sizes are nominal, in tenths of a point: the error size -= 0.2     *)
(* accumulates (about 1e-14) is far below the margin of every test on it.  *)
(* A key is modelled by its index in                                       *)
(* the de-duplicated list: keys are pairwise distinct 44-digit strings.    *)
(***************************************************************************)
EXTENDS Integers, Sequences, FiniteSets, TLC

\* ---------------------------------------------------------------- bounds
MaxKeys == 170

MaxPlanKeys == 5

MaxPlanLines == 2

MaxPlanWidthStep == 4

\* ------------------------------------------------------- double arithmetic
\* low 12 bits of the mantissa of mm = 0x1.6ad5ab56ad5acp+1
MantLow == 1452

mm == [t |-> 60, d |-> 0, x |-> TRUE]

\* ulp of a double of nominal length t, in units of 2^-51 pt (1 pt = 127/360 mm)
Ulp(t) ==
    IF 6 * t < 127 * 4 THEN 1
    ELSE CHOOSE p \in {1, 2, 4, 8, 16, 32, 64, 128, 256, 512} :
             /\ 127 * 2 * p <= 6 * t
             /\ 6 * t < 127 * 4 * p

\* round-to-nearest-even of (t/60)*M + dRaw to a multiple of the ulp;
\* returns the deviation of the rounded value
Round(t, dRaw) ==
    LET p   == Ulp(t)
        n   == t \div 60
        lo  == ((n % (2 * p)) * (MantLow % (2 * p)) + dRaw) % (2 * p)
        rem == lo % p
    IN  IF 2 * rem < p THEN dRaw - rem
        ELSE IF 2 * rem > p THEN dRaw - rem + p
        ELSE IF lo >= p THEN dRaw - rem + p
        ELSE dRaw - rem

Tracked(a) == a.x /\ a.t % 60 = 0

FAdd(a, b) ==
    IF Tracked(a) /\ Tracked(b)
    THEN [t |-> a.t + b.t, d |-> Round(a.t + b.t, a.d + b.d), x |-> TRUE]
    ELSE [t |-> a.t + b.t, d |-> 0, x |-> FALSE]

FSub(a, b) ==
    IF Tracked(a) /\ Tracked(b)
    THEN [t |-> a.t - b.t, d |-> Round(a.t - b.t, a.d - b.d), x |-> TRUE]
    ELSE [t |-> a.t - b.t, d |-> 0, x |-> FALSE]

\* c * a for an integer (or integer-valued float) c
FMulInt(c, a) ==
    IF Tracked(a)
    THEN [t |-> c * a.t, d |-> Round(c * a.t, c * a.d), x |-> TRUE]
    ELSE [t |-> c * a.t, d |-> 0, x |-> FALSE]

\* a * (num/10) for a non-integer double num/10: rounding not tracked
FMulTenths(a, num) == [t |-> (a.t * num) \div 10, d |-> 0, x |-> FALSE]

FLess(a, b) == a.t < b.t \/ (a.t = b.t /\ a.d < b.d)

FMin(a, b) == IF FLess(b, a) THEN b ELSE a

FMax(a, b) == IF FLess(a, b) THEN b ELSE a

\* a // b on doubles: the floor of the quotient of the two doubles.  When the
\* nominal quotient is an integer the roundings of a and b decide.
FFloorDiv(a, b) ==
    LET q == a.t \div b.t
    IN  IF a.t % b.t = 0 /\ a.x /\ b.x /\ a.d - q * b.d < 0 THEN q - 1 ELSE q

Max(a, b) == IF a >= b THEN a ELSE b

\* ------------------------------------------------------------ page geometry
\* _page_geometry: A4 = (210*mm, 297*mm), margins of 16 mm
w == FMulInt(210, mm)

h == FMulInt(297, mm)

left == FMulInt(16, mm)

right == FMulInt(16, mm)

top == FSub(h, FMulInt(16, mm))

\* render_pdf locals
line_h == FMulInt(6, mm)

sig_line_y == FMulInt(22, mm)

sig_block_top == FAdd(sig_line_y, FMulInt(6, mm))

total_min_y == FAdd(sig_block_top, FMulInt(10, mm))

gutter == FMulInt(16, mm)

header_h == FMulInt(9, mm)

box_h == FMulInt(22, mm)

list_line_h == FMulInt(5, mm)

list_bottom == FAdd(total_min_y, FMulInt(1, list_line_h))

\* the cursor after the header box, the collection-time box and the title
YAfterHeader ==
    LET y1 == FSub(top, FAdd(header_h, FMulInt(4, mm)))
        y2 == FSub(y1, FAdd(box_h, FMulInt(12, mm)))
    IN  FSub(y2, FMulInt(1, line_h))

\* the cursor after new_page_repeat_title
YAfterTitle == FSub(top, FMulTenths(line_h, 11))

\* usable_h = y: the reserved footer zone is not subtracted
LinesPerColNoBottom(y) == Max(1, FFloorDiv(y, list_line_h))

\* usable_h = y - list_bottom; lines_per_col = max(1, int(usable_h // list_line_h))
LinesPerCol(y) == Max(1, FFloorDiv(FSub(y, list_bottom), list_line_h))

\* -------------------------------------------------------------- the planner
\* KEY_RE matches exactly 44 digits; the placeholder sample is "0" * 44
KeyLen == 44

\* max_font=10.0 and min_font_ok=8.5 as passed by render_pdf, in tenths of a point
max_font == 100

min_font_ok == 85

\* the floor of _fit_font_size_for_column, and its step of 0.2
FloorSize == 70

SizeStep == 2

\* sample = max(keys, key=len) if keys else "0" * 44: its length
SampleLen(ks) == KeyLen

\* pdfmetrics.stringWidth(text, "Courier", size) <= col_width: Courier is
\* 0.6 em per character; size in tenths of a point, col_width in 1/60 mm,
\* 1 mm = 360/127 pt
Fits(len, size, col_width) == size * len * 127 <= 100 * col_width

RECURSIVE FitLoop(_, _, _)
FitLoop(len, col_width, size) ==
    IF size >= FloorSize
    THEN IF Fits(len, size, col_width) THEN size
         ELSE FitLoop(len, col_width, size - SizeStep)
    ELSE FloorSize

\* the size is never reduced
FitFontNoShrink(len, col_width, max_size) == max_size

FitFontSizeForColumn(len, col_width, max_size) == FitLoop(len, col_width, max_size)

PagesFor(n_items, ncols, lpc) ==
    LET per_page == Max(1, ncols * Max(1, lpc))
    IN  (n_items + per_page - 1) \div per_page

\* 3 columns accepted whenever they save a page, whatever the font size
ChooseColumnsIgnoringFont(ks, pw, pleft, pright, pgutter, lpc, maxf, minf) ==
    LET sample == SampleLen(ks)
        col_w2 == (pw - pleft - pright - pgutter * 1) \div 2
        size2  == FitFontSizeForColumn(sample, col_w2, maxf)
        pages2 == PagesFor(Len(ks), 2, lpc)
        col_w3 == (pw - pleft - pright - pgutter * 2) \div 3
        size3  == FitFontSizeForColumn(sample, col_w3, maxf)
        pages3 == PagesFor(Len(ks), 3, lpc)
    IN  IF pages3 < pages2
        THEN [cols |-> 3, size |-> size3, col_w |-> col_w3]
        ELSE [cols |-> 2, size |-> size2, col_w |-> col_w2]

\* 3 columns accepted on equal page counts
ChooseColumnsOnTie(ks, pw, pleft, pright, pgutter, lpc, maxf, minf) ==
    LET sample == SampleLen(ks)
        col_w2 == (pw - pleft - pright - pgutter * 1) \div 2
        size2  == FitFontSizeForColumn(sample, col_w2, maxf)
        pages2 == PagesFor(Len(ks), 2, lpc)
        col_w3 == (pw - pleft - pright - pgutter * 2) \div 3
        size3  == FitFontSizeForColumn(sample, col_w3, maxf)
        pages3 == PagesFor(Len(ks), 3, lpc)
    IN  IF size3 >= minf /\ pages3 <= pages2
        THEN [cols |-> 3, size |-> size3, col_w |-> col_w3]
        ELSE [cols |-> 2, size |-> size2, col_w |-> col_w2]

ChooseColumnsAndFont(ks, pw, pleft, pright, pgutter, lpc, maxf, minf) ==
    LET sample == SampleLen(ks)
        avail2 == pw - pleft - pright - pgutter * 1
        col_w2 == avail2 \div 2
        size2  == FitFontSizeForColumn(sample, col_w2, maxf)
        pages2 == PagesFor(Len(ks), 2, lpc)
        avail3 == pw - pleft - pright - pgutter * 2
        col_w3 == avail3 \div 3
        size3  == FitFontSizeForColumn(sample, col_w3, maxf)
        pages3 == PagesFor(Len(ks), 3, lpc)
    IN  IF size3 >= minf /\ pages3 < pages2
        THEN [cols |-> 3, size |-> size3, col_w |-> col_w3]
        ELSE [cols |-> 2, size |-> size2, col_w |-> col_w2]

\* -------------------------------------------------------------------- state
VARIABLES
    pc,               \* position of the "Gerar arquivos" handler
    readable,         \* the upload: can PdfReader parse it
    found,            \* the upload: how many distinct 44-digit keys its text holds
    gerar_txt,        \* checkbox "Gerar TXT (opcional)"
    mostrar_preview,  \* checkbox "Mostrar previa"
    tmp_in,           \* does /tmp/entrada_<ts>.pdf exist
    out_pdf,          \* does /tmp/Chaves_de_Acesso_<ts>.pdf exist
    out_txt,          \* does /tmp/Chaves_<ts>.txt exist
    ui,               \* widgets the handler has emitted, in order
    keys,             \* the extracted key list
    rpc,              \* position inside render_pdf
    y, lines_per_col, cols, list_size, col_w,
    idx, lowest_y_on_page, page_start_y, col, x, yy, line,
    total_y,
    pages,            \* per emitted page, the set of fixed items drawn on it
    draws,            \* the drawString calls that drew keys, in call order
    plan_in, plan_out \* one call of _choose_columns_and_font on its own

hvars == <<pc, readable, found, gerar_txt, mostrar_preview, tmp_in, out_pdf, out_txt, ui>>

rvars == <<rpc, y, lines_per_col, cols, list_size, col_w, idx, lowest_y_on_page,
           page_start_y, col, x, yy, line, total_y, pages, draws>>

pvars == <<plan_in, plan_out>>

vars == <<hvars, keys, rvars, pvars>>

Zero == [t |-> 0, d |-> 0, x |-> FALSE]

KeyList(n) == [i \in 1..n |-> i]

NoPlan == [cols |-> 0, size |-> 0, col_w |-> 0]

NoPlanIn == [n |-> 0, w |-> 0, gutter |-> 0, lpc |-> 0, minf |-> 0]

RenderIdle ==
    /\ rpc = "begin"
    /\ y = Zero /\ lines_per_col = 0 /\ cols = 0 /\ list_size = 0 /\ col_w = 0
    /\ idx = 0 /\ lowest_y_on_page = Zero /\ page_start_y = Zero
    /\ col = 0 /\ x = 0 /\ yy = Zero /\ line = 0 /\ total_y = Zero
    /\ pages = <<>> /\ draws = <<>>

PlanIdle == plan_in = NoPlanIn /\ plan_out = NoPlan

Init ==
    /\ pc = "idle"
    /\ readable = FALSE /\ found = 0
    /\ gerar_txt = FALSE /\ mostrar_preview = FALSE
    /\ tmp_in = FALSE /\ out_pdf = FALSE /\ out_txt = FALSE
    /\ ui = <<>>
    /\ keys = <<>>
    /\ RenderIdle
    /\ PlanIdle

\* --------------------------------------------------------------- render_pdf
\* lines 132-214: canvas, header box, collection-time box, title, plan
RenderBegin ==
    /\ pc = "render" /\ rpc = "begin"
    /\ LET y0   == YAfterHeader
           lpc  == LinesPerCol(y0)
           plan == ChooseColumnsAndFont(keys, w.t, left.t, right.t, gutter.t,
                                        lpc, max_font, min_font_ok)
       IN  /\ y' = y0
           /\ lines_per_col' = lpc
           /\ cols' = plan.cols
           /\ list_size' = plan.size
           /\ col_w' = plan.col_w
           /\ lowest_y_on_page' = y0
    /\ idx' = 0
    /\ pages' = << {"header_box", "hora_box", "title"} >>
    /\ rpc' = "while"
    /\ UNCHANGED <<hvars, keys, pvars, page_start_y, col, x, yy, line, total_y, draws>>

\* lines 216-218: while idx < len(keys)
WhileTest ==
    /\ pc = "render" /\ rpc = "while"
    /\ IF idx < Len(keys)
       THEN /\ page_start_y' = y
            /\ lowest_y_on_page' = y
            /\ col' = 0
            /\ rpc' = "col"
       ELSE /\ rpc' = "total"
            /\ UNCHANGED <<page_start_y, lowest_y_on_page, col>>
    /\ UNCHANGED <<hvars, keys, pvars, y, lines_per_col, cols, list_size, col_w,
                   idx, x, yy, line, total_y, pages, draws>>

\* every column starts at the left margin
ColumnStartNoOffset ==
    /\ pc = "render" /\ rpc = "col"
    /\ IF col < cols
       THEN /\ x' = left.t
            /\ yy' = page_start_y
            /\ line' = 0
            /\ rpc' = "line"
       ELSE /\ rpc' = "pageend"
            /\ UNCHANGED <<x, yy, line>>
    /\ UNCHANGED <<hvars, keys, pvars, y, lines_per_col, cols, list_size, col_w,
                   idx, lowest_y_on_page, page_start_y, col, total_y, pages, draws>>

\* lines 220-223: for col in range(cols)
ColumnStart ==
    /\ pc = "render" /\ rpc = "col"
    /\ IF col < cols
       THEN /\ x' = left.t + col * (col_w + gutter.t)
            /\ yy' = page_start_y
            /\ line' = 0
            /\ rpc' = "line"
       ELSE /\ rpc' = "pageend"
            /\ UNCHANGED <<x, yy, line>>
    /\ UNCHANGED <<hvars, keys, pvars, y, lines_per_col, cols, list_size, col_w,
                   idx, lowest_y_on_page, page_start_y, col, total_y, pages, draws>>

\* lines 225-231: one iteration of for _ in range(lines_per_col) that draws
DrawKey ==
    /\ pc = "render" /\ rpc = "line"
    /\ line < lines_per_col /\ idx < Len(keys)
    /\ draws' = Append(draws, [page |-> Len(pages), col |-> col, row |-> line,
                               x |-> x, y |-> yy, key |-> keys[idx + 1]])
    /\ lowest_y_on_page' = FMin(lowest_y_on_page, yy)
    /\ yy' = FSub(yy, list_line_h)
    /\ idx' = idx + 1
    /\ line' = line + 1
    /\ UNCHANGED <<hvars, keys, pvars, rpc, y, lines_per_col, cols, list_size,
                   col_w, page_start_y, col, x, total_y, pages>>

\* lines 225-227: the inner loop ends (range exhausted, or break on idx)
ColumnDone ==
    /\ pc = "render" /\ rpc = "line"
    /\ ~(line < lines_per_col /\ idx < Len(keys))
    /\ rpc' = "colend"
    /\ UNCHANGED <<hvars, keys, pvars, y, lines_per_col, cols, list_size, col_w,
                   idx, lowest_y_on_page, page_start_y, col, x, yy, line,
                   total_y, pages, draws>>

\* lines 233-234: break out of the column loop when the keys are exhausted
ColumnEnd ==
    /\ pc = "render" /\ rpc = "colend"
    /\ IF idx >= Len(keys)
       THEN rpc' = "pageend" /\ col' = col
       ELSE rpc' = "col" /\ col' = col + 1
    /\ UNCHANGED <<hvars, keys, pvars, y, lines_per_col, cols, list_size, col_w,
                   idx, lowest_y_on_page, page_start_y, x, yy, line, total_y,
                   pages, draws>>

\* the continuation page repeats the whole header block
PageEndFullHeader ==
    /\ pc = "render" /\ rpc = "pageend"
    /\ IF idx < Len(keys)
       THEN /\ pages' = Append(pages, {"header_box", "hora_box", "title"})
            /\ y' = YAfterHeader
            /\ lines_per_col' = LinesPerCol(YAfterHeader)
       ELSE UNCHANGED <<pages, y, lines_per_col>>
    /\ rpc' = "while"
    /\ UNCHANGED <<hvars, keys, pvars, cols, list_size, col_w, idx,
                   lowest_y_on_page, page_start_y, col, x, yy, line, total_y, draws>>

\* lines 236-239 with new_page_repeat_title (157-164)
PageEnd ==
    /\ pc = "render" /\ rpc = "pageend"
    /\ IF idx < Len(keys)
       THEN /\ pages' = Append(pages, {"title"})
            /\ y' = YAfterTitle
            /\ lines_per_col' = LinesPerCol(YAfterTitle)
       ELSE UNCHANGED <<pages, y, lines_per_col>>
    /\ rpc' = "while"
    /\ UNCHANGED <<hvars, keys, pvars, cols, list_size, col_w, idx,
                   lowest_y_on_page, page_start_y, col, x, yy, line, total_y, draws>>

\* the total line always sits on the floor
TotalYAtFloor(lowest) == total_min_y

\* total_y = max(lowest_y_on_page - list_line_h * 1.8, total_min_y)
TotalY(lowest) == FMax(FSub(lowest, FMulTenths(list_line_h, 18)), total_min_y)

\* lines 244-260: total line, signatures, save
Footer ==
    /\ pc = "render" /\ rpc = "total"
    /\ total_y' = TotalY(lowest_y_on_page)
    /\ pages' = [pages EXCEPT ![Len(pages)] = @ \cup {"total", "signatures"}]
    /\ out_pdf' = TRUE
    /\ rpc' = "done"
    /\ UNCHANGED <<pc, readable, found, gerar_txt, mostrar_preview, tmp_in,
                   out_txt, ui,
                   keys, pvars, y, lines_per_col, cols, list_size, col_w, idx,
                   lowest_y_on_page, page_start_y, col, x, yy, line, draws>>

Render ==
    \/ RenderBegin
    \/ WhileTest
    \/ ColumnStart
    \/ DrawKey
    \/ ColumnDone
    \/ ColumnEnd
    \/ PageEnd
    \/ Footer

\* ------------------------------------------------- "Gerar arquivos" handler
\* lines 282-290: the button is enabled once a file is uploaded; the upload
\* is written to tmp_in.  The upload fixes what extraction will find.
Click ==
    /\ pc = "idle"
    /\ \E r \in BOOLEAN, n \in 0..MaxKeys, g \in BOOLEAN, m \in BOOLEAN :
          /\ readable' = r
          /\ found' = IF r THEN n ELSE 0
          /\ gerar_txt' = g
          /\ mostrar_preview' = m
    /\ tmp_in' = TRUE
    /\ pc' = "extract"
    /\ UNCHANGED <<out_pdf, out_txt, ui, keys, rvars, pvars>>

\* line 292: PdfReader raises on a file it cannot parse; nothing catches it
ExtractRaises ==
    /\ pc = "extract" /\ ~readable
    /\ ui' = Append(ui, "exception")
    /\ pc' = "crashed"
    /\ UNCHANGED <<readable, found, gerar_txt, mostrar_preview, tmp_in, out_pdf,
                   out_txt, keys, rvars, pvars>>

\* lines 292-299: no keys: st.error, os.remove(tmp_in), st.stop()
NoKeysFound ==
    /\ pc = "extract" /\ readable
    /\ keys' = KeyList(found)
    /\ Len(keys') = 0
    /\ ui' = Append(ui, "error")
    /\ tmp_in' = FALSE
    /\ pc' = "stopped"
    /\ UNCHANGED <<readable, found, gerar_txt, mostrar_preview, out_pdf, out_txt,
                   rvars, pvars>>

\* render_pdf is called whatever extraction returned
CallRenderUnchecked ==
    /\ pc = "extract" /\ readable
    /\ keys' = KeyList(found)
    /\ pc' = "render"
    /\ UNCHANGED <<readable, found, gerar_txt, mostrar_preview, tmp_in, out_pdf,
                   out_txt, ui, rvars, pvars>>

\* lines 292-304: keys found: normalise date and time, call render_pdf
CallRender ==
    /\ pc = "extract" /\ readable
    /\ keys' = KeyList(found)
    /\ Len(keys') > 0
    /\ pc' = "render"
    /\ UNCHANGED <<readable, found, gerar_txt, mostrar_preview, tmp_in, out_pdf,
                   out_txt, ui, rvars, pvars>>

\* lines 306-334: optional TXT, success, downloads, preview, remove tmp_in
Finish ==
    /\ pc = "render" /\ rpc = "done"
    /\ out_txt' = gerar_txt
    /\ ui' = ui \o <<"success", "download_pdf">>
                \o (IF gerar_txt THEN <<"download_txt">> ELSE <<>>)
                \o (IF mostrar_preview THEN <<"preview">> ELSE <<>>)
    /\ tmp_in' = FALSE
    /\ pc' = "done"
    /\ UNCHANGED <<readable, found, gerar_txt, mostrar_preview, out_pdf, keys,
                   rvars, pvars>>

Next ==
    \/ Click
    \/ ExtractRaises
    \/ NoKeysFound
    \/ CallRender
    \/ Render
    \/ Finish

Spec == Init /\ [][Next]_vars

\* ------------------------------------------- render_pdf called on its own
\* render_pdf applied to every key list of length 0..MaxKeys
RenderInit ==
    /\ pc = "render"
    /\ keys \in {KeyList(n) : n \in 0..MaxKeys}
    /\ readable = TRUE /\ found = Len(keys)
    /\ gerar_txt = FALSE /\ mostrar_preview = FALSE
    /\ tmp_in = FALSE /\ out_pdf = FALSE /\ out_txt = FALSE
    /\ ui = <<>>
    /\ RenderIdle
    /\ PlanIdle

RenderSpec == RenderInit /\ [][Render]_vars

\* ------------------------------ _choose_columns_and_font called on its own
\* page widths 210 mm, 250 mm, ... in 1/60 mm
PlanWidth(i) == 60 * (210 + 40 * i)

PlanInit ==
    /\ pc = "plan"
    /\ readable = FALSE /\ found = 0
    /\ gerar_txt = FALSE /\ mostrar_preview = FALSE
    /\ tmp_in = FALSE /\ out_pdf = FALSE /\ out_txt = FALSE
    /\ ui = <<>>
    /\ keys = <<>>
    /\ RenderIdle
    /\ plan_in \in [n : 0..MaxPlanKeys,
                    w : {PlanWidth(i) : i \in 0..MaxPlanWidthStep},
                    gutter : {gutter.t},
                    lpc : 1..MaxPlanLines,
                    minf : {FloorSize, min_font_ok}]
    /\ plan_out = NoPlan

PlanCall ==
    /\ pc = "plan"
    /\ plan_out = NoPlan
    /\ plan_out' = ChooseColumnsAndFont(KeyList(plan_in.n), plan_in.w, left.t,
                                        right.t, plan_in.gutter, plan_in.lpc,
                                        max_font, plan_in.minf)
    /\ UNCHANGED <<hvars, keys, rvars, plan_in>>

PlanSpec == PlanInit /\ [][PlanCall]_vars

\* =================================================================== claims
\* a is read before b: earlier page, or same page and a column further left,
\* or same column and higher up
ReadsBefore(a, b) ==
    \/ a.page < b.page
    \/ a.page = b.page /\ a.x < b.x
    \/ a.page = b.page /\ a.x = b.x /\ FLess(b.y, a.y)

\* the indices of the draws on the last page emitted so far
OnLastPage == {i \in 1..Len(draws) : draws[i].page = Len(pages)}

\* columns * lines_per_column of page 1
FirstPageCapacity == cols * LinesPerCol(YAfterHeader)

\* C1: the drawString calls that draw keys, read page by page, column by column
\* from the left and row by row from the top, are the input key list: the i-th
\* key drawn is keys[i], each draw is read strictly after the one before it, and
\* when render_pdf returns every key has been drawn.
ColumnMajorOrder ==
    /\ Len(draws) <= Len(keys)
    /\ \A i \in 1..Len(draws) : draws[i].key = keys[i]
    /\ \A i \in 1..(Len(draws) - 1) : ReadsBefore(draws[i], draws[i + 1])
    /\ rpc \in {"total", "done"} => Len(draws) = Len(keys)

ColumnMajorOrderWitness ==
    /\ rpc = "done"
    /\ Len(pages) = 2
    /\ draws[Len(draws)].col = 1
    /\ draws[Len(draws)].row > 0

\* C2: a key list that exactly fills page 1's grid never starts a second page;
\* one key more gives exactly two pages, and page 2 holds the repeated title
\* and the one remaining key but neither the client/date box nor the
\* collection-time box.
PageBoundary ==
    rpc # "begin" =>
        /\ Len(keys) = FirstPageCapacity => Len(pages) = 1
        /\ (rpc = "done" /\ Len(keys) = FirstPageCapacity + 1) =>
              /\ Len(pages) = 2
              /\ "title" \in pages[2]
              /\ pages[2] \cap {"header_box", "hora_box"} = {}
              /\ {i \in 1..Len(draws) : draws[i].page = 2} = {Len(keys)}

PageBoundaryWitness ==
    /\ rpc = "done"
    /\ Len(keys) = FirstPageCapacity + 1
    /\ Len(pages) = 2

\* C3: on every page every key is drawn at or above list_bottom; the total line
\* is at or above total_min_y, which is above sig_block_top, and strictly below
\* every key of the final page.
KeysAboveFooter ==
    /\ \A i \in 1..Len(draws) : ~FLess(draws[i].y, list_bottom)
    /\ FLess(sig_block_top, total_min_y)
    /\ rpc = "done" =>
          /\ ~FLess(total_y, total_min_y)
          /\ \A i \in OnLastPage : FLess(total_y, draws[i].y)

KeysAboveFooterWitness ==
    /\ rpc = "done"
    /\ Len(pages) = 2
    /\ \E i \in OnLastPage : draws[i].row = lines_per_col - 1

\* C4: the longest key (44 characters of Courier, 0.6 * size wide each) at the
\* planned font size is no wider than the planned column.
KeyFitsColumn ==
    rpc # "begin" => 6 * list_size * KeyLen * 127 <= 600 * col_w

KeyFitsColumnWitness ==
    /\ rpc = "done"
    /\ Len(keys) > 0
    /\ FloorSize < list_size /\ list_size < max_font

\* C5: when the handler has ended (success, no keys found, or an uncaught
\* exception) tmp_in no longer exists.
TmpRemovedOnEveryExit ==
    pc \in {"done", "stopped", "crashed"} => ~tmp_in

\* C6: when extraction finds no key the handler reports the error, removes
\* tmp_in and stops without calling render_pdf or write_txt; render_pdf only
\* ever runs on, and output files only ever exist for, a non-empty key list.
NoKeysNoOutput ==
    /\ (pc \notin {"idle", "extract"} /\ readable /\ found = 0) =>
          /\ pc = "stopped"
          /\ ui = <<"error">>
          /\ ~tmp_in /\ ~out_pdf /\ ~out_txt
          /\ rpc = "begin"
    /\ (pc \in {"render", "done"} \/ rpc # "begin" \/ out_pdf \/ out_txt) =>
          Len(keys) > 0

NoKeysNoOutputWitness ==
    /\ pc = "stopped"
    /\ readable /\ found = 0
    /\ ui = <<"error">>

\* the least p with p * per >= n
CeilDiv(n, per) == CHOOSE p \in 0..n : p * per >= n /\ (p = 0 \/ (p - 1) * per < n)

\* the largest size max_font, max_font - 0.2, ... >= 7.0 at which 44 characters
\* fit into cw, or the floor 7.0 when none does
ResolvedSize(cw) ==
    LET grid == {s \in FloorSize..max_font : (max_font - s) % SizeStep = 0}
        ok   == {s \in grid : 6 * s * KeyLen * 127 <= 600 * cw}
    IN  IF ok = {} THEN FloorSize ELSE CHOOSE s \in ok : \A u \in ok : u <= s

\* C7: the planner returns 3 columns exactly when the 3-column page count is
\* strictly smaller than the 2-column one and the 3-column font size is at
\* least min_font_ok, and 2 columns otherwise; size and width are those of the
\* returned column count.
ThreeColumnsIff ==
    plan_out # NoPlan =>
        LET avail(c) == plan_in.w - left.t - right.t - (c - 1) * plan_in.gutter
            p2 == CeilDiv(plan_in.n, 2 * plan_in.lpc)
            p3 == CeilDiv(plan_in.n, 3 * plan_in.lpc)
            c  == plan_out.cols
        IN  /\ c \in {2, 3}
            /\ c = 3 <=> (p3 < p2 /\ ResolvedSize(avail(3) \div 3) >= plan_in.minf)
            /\ c * plan_out.col_w = avail(c)
            /\ plan_out.size = ResolvedSize(plan_out.col_w)

ThreeColumnsIffWitness ==
    /\ plan_out # NoPlan
    /\ plan_out.cols = 3
    /\ plan_in.minf = min_font_ok

\* C8: for N >= 1 the number of pages emitted equals the planner's count
\* ceil(N / (columns * lines_per_column of page 1)).
PagesEqualPlannerCount ==
    (rpc = "done" /\ Len(keys) >= 1) =>
        Len(pages) = PagesFor(Len(keys), cols, LinesPerCol(YAfterHeader))

\* C9: with the geometry render_pdf passes the plan always has 2 columns: no
\* size from min_font_ok up fits 44 characters into a third of the 3-column
\* width, whatever the number of keys.
AlwaysTwoColumns ==
    rpc # "begin" =>
        /\ cols = 2
        /\ \A s \in min_font_ok..max_font :
              6 * s * KeyLen * 127 > 600 * ((w.t - left.t - right.t - 2 * gutter.t) \div 3)

AlwaysTwoColumnsWitness ==
    /\ rpc = "done"
    /\ cols = 2
    /\ CeilDiv(Len(keys), 3 * LinesPerCol(YAfterHeader))
          < CeilDiv(Len(keys), 2 * LinesPerCol(YAfterHeader))

\* C10: for a non-empty key list the lowest key of the final page is at least
\* two line heights above total_min_y, the total line is exactly 1.8 line
\* heights below it, and it is drawn on the page of the last key.
TotalFollowsLastRow ==
    (rpc = "done" /\ Len(keys) >= 1) =>
        /\ OnLastPage # {}
        /\ \A i \in OnLastPage : ~FLess(draws[i].y, lowest_y_on_page)
        /\ \E i \in OnLastPage : draws[i].y = lowest_y_on_page
        /\ lowest_y_on_page.t >= total_min_y.t + 2 * list_line_h.t
        /\ 10 * total_y.t = 10 * lowest_y_on_page.t - 18 * list_line_h.t
        /\ "total" \in pages[Len(pages)]
        /\ draws[Len(draws)].page = Len(pages)

TotalFollowsLastRowWitness ==
    /\ rpc = "done"
    /\ Len(pages) = 2
    /\ \E i \in OnLastPage : draws[i].row = lines_per_col - 1 /\ draws[i].col = 1

====
